---- MODULE Spec2Model ----
(***************************************************************************)
(* Model of main.py: a CLI script that reads data/products.csv, normalises *)
(* its rows into (product, price, qty, total) tuples and renders them as   *)
(* one table in output/invoice.pdf with ReportLab and the Arial font.      *)
(*                                                                         *)
(* Text is a sequence of one-character strings, so that strip, replace,    *)
(* float() and the "%.2f" formatting are computed character by character.  *)
(* Python's None is the one-element sequence None, which is no text.       *)
(* The file system, the platform and the ReportLab library are the         *)
(* environment: what the file system holds is fixed in Init, and a library *)
(* call that can raise is a choice between returning and raising.          *)
(***************************************************************************)
EXTENDS Integers, Sequences, FiniteSets, TLC

VARIABLES
    platform,          \* sys.platform
    font_isfile,       \* os.path.isfile(<WINDIR>\Fonts\arial.ttf)
    font_loads,        \* pdfmetrics.registerFont(TTFont(...)) does not raise
    csv_isfile,        \* os.path.isfile(DATA_CSV)
    fieldnames,        \* reader.fieldnames of the CSV file (<<>> for an empty file)
    csv_rows,          \* the data rows of the CSV file, in file order
    font_registered,   \* the module global _font_registered
    reg_log,           \* history: one record per call of register_arial
    rows_raw,          \* main: rows_raw
    i,                 \* main: number of rows the for loop has consumed
    table_rows,        \* main: table_rows
    stdout,            \* lines printed to sys.stdout
    stderr,            \* lines printed to sys.stderr
    data,              \* build_invoice_pdf: data, the cells handed to Table
    doc_constructed,   \* build_invoice_pdf got past the construction of doc/table
    path_touched,      \* doc.build opened output_path
    pdf_written,       \* doc.build completed: the PDF is on disk
    render,            \* outcome of the call build_invoice_pdf: none/true/false/raised
    pc,                \* position of main
    exit_code          \* exit status of the process (meaningful once pc = "done")

vars == <<platform, font_isfile, font_loads, csv_isfile, fieldnames, csv_rows,
          font_registered, reg_log, rows_raw, i, table_rows, stdout, stderr,
          data, doc_constructed, path_touched, pdf_written, render, pc, exit_code>>

env == <<platform, font_isfile, font_loads, csv_isfile, fieldnames, csv_rows>>

----------------------------------------------------------------------------
(* Bounds *)

\* Largest number of data rows of the CSV file.
MaxRows == 2

----------------------------------------------------------------------------
(* Text *)

None == <<"None">>

Digits == <<"0", "1", "2", "3", "4", "5", "6", "7", "8", "9">>

IsDigit(c) == \E k \in 1..Len(Digits) : Digits[k] = c

DigitVal(c) == (CHOOSE k \in 1..Len(Digits) : Digits[k] = c) - 1

IsSpace(c) == c = " "

\* x or d
OrDefault(x, d) == IF x = None \/ x = <<>> THEN d ELSE x

RECURSIVE lstrip(_)
lstrip(s) == IF s # <<>> /\ IsSpace(Head(s)) THEN lstrip(Tail(s)) ELSE s

RECURSIVE rstrip(_)
rstrip(s) ==
    IF s # <<>> /\ IsSpace(s[Len(s)]) THEN rstrip(SubSeq(s, 1, Len(s) - 1)) ELSE s

\* str.strip()
strip(s) == rstrip(lstrip(s))

\* str.replace(old, new) for one-character old and new
replace(s, old, new) == [k \in 1..Len(s) |-> IF s[k] = old THEN new ELSE s[k]]

RECURSIVE Pow10(_)
Pow10(n) == IF n = 0 THEN 1 ELSE 10 * Pow10(n - 1)

RECURSIVE DigitsVal(_)
DigitsVal(s) ==
    IF s = <<>> THEN 0 ELSE 10 * DigitsVal(SubSeq(s, 1, Len(s) - 1)) + DigitVal(s[Len(s)])

RECURSIVE NatText(_)
NatText(n) == IF n < 10 THEN <<Digits[n + 1]>> ELSE NatText(n \div 10) \o <<Digits[(n % 10) + 1]>>

----------------------------------------------------------------------------
(* Numbers: float(), float multiplication and the format spec .2f *)

\* The characters of the texts the model draws.  Exponents ("e"), digit
\* separators ("_") and the letters of "nan", "inf" and "infinity" are not
\* among them, so float() below has no case for them.
Chars == {" ", ",", ".", "-", "+", "x", "A", "B"} \cup {Digits[k] : k \in 1..Len(Digits)}

\* A float is (-1)^neg * mant / 10^scale (the sign is kept for zero, as in
\* IEEE 754).  ok = FALSE stands for ValueError.
ValueError == [ok |-> FALSE, neg |-> FALSE, mant |-> 0, scale |-> 0]

Float(neg, mant, scale) == [ok |-> TRUE, neg |-> neg, mant |-> mant, scale |-> scale]

\* The unsigned decimal literal: digits with at most one point, at least one digit.
IsDecimal(b) ==
    /\ \A k \in 1..Len(b) : IsDigit(b[k]) \/ b[k] = "."
    /\ Cardinality({k \in 1..Len(b) : b[k] = "."}) <= 1
    /\ \E k \in 1..Len(b) : IsDigit(b[k])

PointAt(b) == IF \E k \in 1..Len(b) : b[k] = "."
              THEN CHOOSE k \in 1..Len(b) : b[k] = "."
              ELSE Len(b) + 1

\* float(s) of the builtins, for texts over Chars
float(s) ==
    LET t     == strip(s)
        sgn   == t # <<>> /\ Head(t) \in {"+", "-"}
        neg   == t # <<>> /\ Head(t) = "-"
        b     == IF sgn THEN Tail(t) ELSE t
        p     == PointAt(b)
        whole == SubSeq(b, 1, p - 1)
        frac  == SubSeq(b, p + 1, Len(b))
    IN  IF IsDecimal(b) THEN Float(neg, DigitsVal(whole \o frac), Len(frac)) ELSE ValueError

\* a * b of two floats
Mul(a, b) == Float(a.neg # b.neg, a.mant * b.mant, a.scale + b.scale)

\* mant / 10^scale in hundredths, rounded to nearest, ties to even
Hundredths(mant, scale) ==
    IF scale <= 2 THEN mant * Pow10(2 - scale)
    ELSE LET d == Pow10(scale - 2)
             q == mant \div d
             r == mant % d
         IN  IF 2 * r > d \/ (2 * r = d /\ q % 2 = 1) THEN q + 1 ELSE q

\* f"{v:.2f}"
Format2f(v) ==
    LET h == Hundredths(v.mant, v.scale)
        c == h % 100
        sign == IF v.neg THEN <<"-">> ELSE <<>>
    IN  sign \o NatText(h \div 100) \o <<".">> \o <<Digits[(c \div 10) + 1], Digits[(c % 10) + 1]>>

----------------------------------------------------------------------------
(* The CSV file *)

\* The header rows drawn: an empty file (no fieldnames), a header without the
\* product column, and the full header.
NoProductHeader == <<"price", "qty">>

FullHeader == <<"product", "price", "qty">>

Headers == {<<>>, NoProductHeader, FullHeader}

\* Cell texts drawn for the three columns.  csv.DictReader gives None for a
\* column the row (or the header) does not have.
ProductValues == {<<" ">>, <<"A">>, <<" ", "B", " ">>}

PriceValues == {None, <<" ">>, <<"1", ",", "5">>}

QtyValues == {<<>>, <<"x">>, <<" ", "-", "2">>}

\* The rows csv.DictReader yields under header h
RowsOf(h) ==
    [product : IF h = FullHeader THEN ProductValues ELSE {None},
     price   : PriceValues,
     qty     : QtyValues]

RECURSIVE SeqsUpTo(_, _)
SeqsUpTo(S, n) ==
    IF n = 0 THEN {<<>>}
    ELSE LET shorter == SeqsUpTo(S, n - 1)
         IN  shorter \cup {Append(q, x) : q \in {t \in shorter : Len(t) = n - 1}, x \in S}

\* row.get(key)
get(row, key) ==
    CASE key = "product" -> row.product
      [] key = "price"   -> row.price
      [] key = "qty"     -> row.qty

----------------------------------------------------------------------------
(* register_arial *)

\* Variant: register_arial without the early return on _font_registered.
register_arial_nocache(flag) ==
    IF platform # "win32"
    THEN [result |-> FALSE, flag |-> flag, located |-> FALSE, registered |-> FALSE]
    ELSE IF ~font_isfile
    THEN [result |-> FALSE, flag |-> flag, located |-> TRUE, registered |-> FALSE]
    ELSE IF font_loads
    THEN [result |-> TRUE, flag |-> TRUE, located |-> TRUE, registered |-> TRUE]
    ELSE [result |-> FALSE, flag |-> flag, located |-> TRUE, registered |-> TRUE]

\* One call of register_arial with _font_registered = flag.  The result
\* carries the return value, the new value of the flag, and whether the call
\* looked for the font file (os.path.isfile) and called registerFont.
register_arial(flag) ==
    IF flag
    THEN [result |-> TRUE, flag |-> TRUE, located |-> FALSE, registered |-> FALSE]
    ELSE IF platform # "win32"
    THEN [result |-> FALSE, flag |-> flag, located |-> FALSE, registered |-> FALSE]
    ELSE IF ~font_isfile
    THEN [result |-> FALSE, flag |-> flag, located |-> TRUE, registered |-> FALSE]
    ELSE IF font_loads
    THEN [result |-> TRUE, flag |-> TRUE, located |-> TRUE, registered |-> TRUE]
    ELSE [result |-> FALSE, flag |-> flag, located |-> TRUE, registered |-> TRUE]

----------------------------------------------------------------------------
(* The body of the for loop of main, for one row *)

NoItem == <<>>

\* Variant: the except branch passes over the row without printing.
normalize_silent(row) ==
    LET product == strip(OrDefault(get(row, "product"), <<>>))
        price   == replace(strip(OrDefault(get(row, "price"), <<"0">>)), ",", ".")
        qty     == replace(strip(OrDefault(get(row, "qty"), <<"0">>)), ",", ".")
        fp      == float(price)
        fq      == float(qty)
    IN  IF product = <<>> \/ ~fp.ok \/ ~fq.ok THEN [kind |-> "blank", item |-> NoItem]
        ELSE [kind |-> "item", item |-> <<product, price, qty, Format2f(Mul(fp, fq))>>]

\* Variant: the numbers are parsed before the product is looked at.
normalize_parse_first(row) ==
    LET product == strip(OrDefault(get(row, "product"), <<>>))
        price   == replace(strip(OrDefault(get(row, "price"), <<"0">>)), ",", ".")
        qty     == replace(strip(OrDefault(get(row, "qty"), <<"0">>)), ",", ".")
        fp      == float(price)
        fq      == float(qty)
    IN  IF ~fp.ok \/ ~fq.ok THEN [kind |-> "bad", item |-> NoItem]
        ELSE IF product = <<>> THEN [kind |-> "blank", item |-> NoItem]
        ELSE [kind |-> "item", item |-> <<product, price, qty, Format2f(Mul(fp, fq))>>]

\* kind = "blank": the row is passed over by the first continue;
\* kind = "bad": float() raised ValueError; kind = "item": the tuple appended.
normalize(row) ==
    LET product == strip(OrDefault(get(row, "product"), <<>>))
        price   == replace(strip(OrDefault(get(row, "price"), <<"0">>)), ",", ".")
        qty     == replace(strip(OrDefault(get(row, "qty"), <<"0">>)), ",", ".")
        fp      == float(price)
        fq      == float(qty)
    IN  IF product = <<>> THEN [kind |-> "blank", item |-> NoItem]
        ELSE IF ~fp.ok \/ ~fq.ok THEN [kind |-> "bad", item |-> NoItem]
        ELSE [kind |-> "item", item |-> <<product, price, qty, Format2f(Mul(fp, fq))>>]

----------------------------------------------------------------------------
(* build_invoice_pdf: the cells of the table *)

\* The texts of the source are Cyrillic; they are written here in ASCII:
\* "RUB" is the rouble sign, <<"sh", "t", ".">> the unit suffix, and the four
\* header labels are the words Tovar, Cena, Kolichestvo, Summa.
HeaderRow == << <<"Tovar">>, <<"Cena">>, <<"Kolichestvo">>, <<"Summa">> >>

RoubleSuffix == <<" ", "RUB">>

UnitSuffix == <<" ", "sh", "t", ".">>

\* Variant: each data row is inserted right after the header row instead of
\* appended, so the data rows come out in reverse order.
table_data_reversed(rows) ==
    <<HeaderRow>> \o
    [k \in 1..Len(rows) |->
        LET t == rows[Len(rows) + 1 - k]
        IN  <<t[1], t[2] \o RoubleSuffix, t[3] \o UnitSuffix, t[4] \o RoubleSuffix>>]

table_data(rows) ==
    <<HeaderRow>> \o
    [k \in 1..Len(rows) |->
        <<rows[k][1], rows[k][2] \o RoubleSuffix, rows[k][3] \o UnitSuffix,
          rows[k][4] \o RoubleSuffix>>]

----------------------------------------------------------------------------
(* The run of main *)

\* What the run finds on the machine.  The font file is looked for on win32
\* only, and loaded only when it is there.
FontEnvs == {<<"linux", FALSE, FALSE>>, <<"win32", FALSE, FALSE>>,
             <<"win32", TRUE, FALSE>>, <<"win32", TRUE, TRUE>>}

Init ==
    /\ \E e \in FontEnvs :
          /\ platform = e[1]
          /\ font_isfile = e[2]
          /\ font_loads = e[3]
    /\ csv_isfile \in BOOLEAN
    /\ fieldnames \in (IF csv_isfile THEN Headers ELSE {<<>>})
    /\ csv_rows \in (IF fieldnames = <<>> THEN {<<>>}
                     ELSE SeqsUpTo(RowsOf(fieldnames), MaxRows))
    /\ font_registered = FALSE
    /\ reg_log = <<>>
    /\ rows_raw = <<>>
    /\ i = 0
    /\ table_rows = <<>>
    /\ stdout = <<>>
    /\ stderr = <<>>
    /\ data = <<>>
    /\ doc_constructed = FALSE
    /\ path_touched = FALSE
    /\ pdf_written = FALSE
    /\ render = "none"
    /\ pc = "start"
    /\ exit_code = 0

\* sys.exit(1) after print(msg, file=sys.stderr)
Fail(msg) ==
    /\ stderr' = Append(stderr, msg)
    /\ exit_code' = 1
    /\ pc' = "done"

\* An exception nobody catches: the interpreter prints the traceback and
\* exits with status 1.
Uncaught == Fail(<<"traceback">>)

\* if not os.path.isfile(DATA_CSV): ...
CheckCsv ==
    /\ pc = "start"
    /\ IF ~csv_isfile
       THEN Fail(<<"nofile">>)
       ELSE /\ pc' = "register"
            /\ UNCHANGED <<stderr, exit_code>>
    /\ UNCHANGED <<env, font_registered, reg_log, rows_raw, i, table_rows, stdout,
                   data, doc_constructed, path_touched, pdf_written, render>>

\* if not register_arial(): print(warning); os.makedirs(OUTPUT_DIR)
StartupRegister ==
    /\ pc = "register"
    /\ LET r == register_arial(font_registered)
       IN  /\ font_registered' = r.flag
           /\ reg_log' = Append(reg_log, [result |-> r.result, located |-> r.located,
                                          registered |-> r.registered])
           /\ stderr' = IF r.result THEN stderr ELSE Append(stderr, <<"font">>)
    /\ pc' = "open"
    /\ UNCHANGED <<env, rows_raw, i, table_rows, stdout, data, doc_constructed,
                   path_touched, pdf_written, render, exit_code>>

\* Variant: only an absent header row is rejected.
header_rejected_if_empty(names) == names = <<>>

\* not reader.fieldnames or "product" not in (reader.fieldnames or [])
header_rejected(names) ==
    names = <<>> \/ ~(\E k \in 1..Len(names) : names[k] = "product")

\* with open(DATA_CSV) as f: reader = csv.DictReader(f); the header check
CheckHeader ==
    /\ pc = "open"
    /\ IF header_rejected(fieldnames)
       THEN Fail(<<"schema">>)
       ELSE /\ pc' = "read"
            /\ UNCHANGED <<stderr, exit_code>>
    /\ UNCHANGED <<env, font_registered, reg_log, rows_raw, i, table_rows, stdout,
                   data, doc_constructed, path_touched, pdf_written, render>>

\* rows_raw = list(reader)
ReadRows ==
    /\ pc = "read"
    /\ rows_raw' = csv_rows
    /\ pc' = "loop"
    /\ UNCHANGED <<env, font_registered, reg_log, i, table_rows, stdout, stderr,
                   data, doc_constructed, path_touched, pdf_written, render, exit_code>>

\* One iteration of: for row in rows_raw
LoopRow ==
    /\ pc = "loop"
    /\ i < Len(rows_raw)
    /\ LET row == rows_raw[i + 1]
           n   == normalize(row)
       IN  /\ table_rows' = IF n.kind = "item" THEN Append(table_rows, n.item)
                            ELSE table_rows
           /\ stdout' = IF n.kind = "item"
                        THEN Append(stdout, <<"processing", n.item[1]>>)
                        ELSE stdout
           /\ stderr' = IF n.kind = "bad" THEN Append(stderr, <<"skip", row>>)
                        ELSE stderr
    /\ i' = i + 1
    /\ UNCHANGED <<env, font_registered, reg_log, rows_raw, data, doc_constructed,
                   path_touched, pdf_written, render, pc, exit_code>>

\* Variant: the rows go to build_invoice_pdf without the emptiness check.
CheckTableRows_NoCheck ==
    /\ pc = "loop"
    /\ i = Len(rows_raw)
    /\ pc' = "build"
    /\ UNCHANGED <<env, font_registered, reg_log, rows_raw, i, table_rows, stdout, stderr,
                   data, doc_constructed, path_touched, pdf_written, render, exit_code>>

\* After the loop: if not table_rows: print(no data); sys.exit(1)
CheckTableRows ==
    /\ pc = "loop"
    /\ i = Len(rows_raw)
    /\ IF table_rows = <<>>
       THEN Fail(<<"nodata">>)
       ELSE /\ pc' = "build"
            /\ UNCHANGED <<stderr, exit_code>>
    /\ UNCHANGED <<env, font_registered, reg_log, rows_raw, i, table_rows, stdout,
                   data, doc_constructed, path_touched, pdf_written, render>>

\* Variant: build_invoice_pdf goes on whatever register_arial returns.
BuildRegister_IgnoreResult ==
    /\ pc = "build"
    /\ LET r == register_arial(font_registered)
       IN  /\ font_registered' = r.flag
           /\ reg_log' = Append(reg_log, [result |-> r.result, located |-> r.located,
                                          registered |-> r.registered])
    /\ pc' = "construct"
    /\ render' = "running"
    /\ UNCHANGED <<env, rows_raw, i, table_rows, stdout, stderr, data, doc_constructed,
                   path_touched, pdf_written, exit_code>>

\* build_invoice_pdf: if not register_arial(): return False
BuildRegister ==
    /\ pc = "build"
    /\ LET r == register_arial(font_registered)
       IN  /\ font_registered' = r.flag
           /\ reg_log' = Append(reg_log, [result |-> r.result, located |-> r.located,
                                          registered |-> r.registered])
           /\ IF r.result
              THEN pc' = "construct" /\ render' = "running"
              ELSE pc' = "result" /\ render' = "false"
    /\ UNCHANGED <<env, rows_raw, i, table_rows, stdout, stderr, data, doc_constructed,
                   path_touched, pdf_written, exit_code>>

\* build_invoice_pdf: SimpleDocTemplate, the two ParagraphStyles, the
\* Paragraph cells, Table and setStyle.  None of it is inside a try: a call
\* of the library that raises here leaves build_invoice_pdf and main.
BuildConstruct ==
    /\ pc = "construct"
    /\ \E raises \in BOOLEAN :
          IF raises
          THEN /\ render' = "raised"
               /\ Uncaught
               /\ UNCHANGED <<data, doc_constructed>>
          ELSE /\ data' = table_data(table_rows)
               /\ doc_constructed' = TRUE
               /\ pc' = "docbuild"
               /\ UNCHANGED <<render, stderr, exit_code>>
    /\ UNCHANGED <<env, font_registered, reg_log, rows_raw, i, table_rows, stdout,
                   path_touched, pdf_written>>

\* build_invoice_pdf: try: doc.build(story); return True / except: return False
DocBuild ==
    /\ pc = "docbuild"
    /\ path_touched' = TRUE
    /\ \E raises \in BOOLEAN :
          /\ pdf_written' = ~raises
          /\ render' = IF raises THEN "false" ELSE "true"
    /\ pc' = "result"
    /\ UNCHANGED <<env, font_registered, reg_log, rows_raw, i, table_rows, stdout,
                   stderr, data, doc_constructed, exit_code>>

\* if not build_invoice_pdf(...): print(error); sys.exit(1)
\* print(done); if os.path.isfile(pdf_path): print(opening)
CheckResult ==
    /\ pc = "result"
    /\ IF render = "false"
       THEN /\ Fail(<<"pdf_error">>)
            /\ UNCHANGED stdout
       ELSE /\ stdout' = IF pdf_written
                         THEN stdout \o << <<"done">>, <<"opening">> >>
                         ELSE Append(stdout, <<"done">>)
            /\ pc' = IF pdf_written THEN "startfile" ELSE "done"
            /\ UNCHANGED <<stderr, exit_code>>
    /\ UNCHANGED <<env, font_registered, reg_log, rows_raw, i, table_rows,
                   data, doc_constructed, path_touched, pdf_written, render>>

\* os.startfile(pdf_path): it returns once the viewer is launched, and raises
\* OSError when the launch fails; main does not catch it.
StartFile ==
    /\ pc = "startfile"
    /\ \E raises \in BOOLEAN :
          IF raises
          THEN Uncaught
          ELSE /\ pc' = "done"
               /\ UNCHANGED <<stderr, exit_code>>
    /\ UNCHANGED <<env, font_registered, reg_log, rows_raw, i, table_rows, stdout,
                   data, doc_constructed, path_touched, pdf_written, render>>

Next ==
    \/ CheckCsv
    \/ StartupRegister
    \/ CheckHeader
    \/ ReadRows
    \/ LoopRow
    \/ CheckTableRows
    \/ BuildRegister
    \/ BuildConstruct
    \/ DocBuild
    \/ CheckResult
    \/ StartFile

Spec == Init /\ [][Next]_vars

----------------------------------------------------------------------------
(* Vocabulary of the properties *)

Done == pc = "done"

\* The file has a header row with a product column.
HasProductColumn == \E k \in 1..Len(fieldnames) : fieldnames[k] = "product"

\* main is past the reading of the rows, and the loop has consumed them all.
Normalized ==
    /\ csv_isfile
    /\ HasProductColumn
    /\ pc \notin {"start", "register", "open", "read"}
    /\ i = Len(rows_raw)

\* A cell that is absent, empty or whitespace-only.
IsBlank(x) == x = None \/ strip(x) = <<>>

\* The text main hands to float() for a price or qty cell.
NumberText(x) == replace(strip(OrDefault(x, <<"0">>)), ",", ".")

Parses(x) == float(NumberText(x)).ok

BlankProduct(row) == IsBlank(row.product)

\* Non-empty product, and a price or qty that does not parse.
IsBadRow(row) == ~BlankProduct(row) /\ (~Parses(row.price) \/ ~Parses(row.qty))

IsGoodRow(row) == ~IsBadRow(row)

\* Non-empty product, parsable price and qty.
IsValidRow(row) == ~BlankProduct(row) /\ Parses(row.price) /\ Parses(row.qty)

IsSkip(line) == line[1] = "skip"

IsProgress(line) == line[1] = "processing"

\* The raw rows quoted by the diagnostic lines of the error stream, in order.
SkippedRows ==
    LET lines == SelectSeq(stderr, IsSkip)
    IN  [k \in 1..Len(lines) |-> lines[k][2]]

\* The products named by the progress notices, in order.
ProgressProducts ==
    LET lines == SelectSeq(stdout, IsProgress)
    IN  [k \in 1..Len(lines) |-> lines[k][2]]

\* The rows the loop has consumed so far.
Consumed == SubSeq(rows_raw, 1, i)

\* The tuples the loop body yields for rows, in order.
RECURSIVE Items(_)
Items(rows) ==
    IF rows = <<>> THEN <<>>
    ELSE LET n == normalize(Head(rows))
         IN  (IF n.kind = "item" THEN <<n.item>> ELSE <<>>) \o Items(Tail(rows))

LastLine(log) == IF log = <<>> THEN <<"">> ELSE log[Len(log)]

Zero == <<"0">>

ZeroTotal == <<"0", ".", "0", "0">>

----------------------------------------------------------------------------
(* Properties *)

\* C1: build_invoice_pdf never raises to its caller: a failure of any step of
\* document construction or of file writing makes it return false.
C1_RenderNeverRaises == render # "raised"

\* C2: every consumed row with a non-empty product whose price or qty cell is
\* absent, empty or whitespace-only (the other cell being blank too or a
\* number) is kept as a tuple with "0" in that field and total "0.00", and
\* no diagnostic line quotes it.
C2_BlankDefaultsToZero ==
    \A k \in 1..i :
        LET row == rows_raw[k]
        IN  (/\ ~BlankProduct(row)
             /\ IsBlank(row.price) \/ IsBlank(row.qty)
             /\ IsBlank(row.price) \/ float(replace(strip(row.price), ",", ".")).ok
             /\ IsBlank(row.qty) \/ float(replace(strip(row.qty), ",", ".")).ok)
            => /\ \A m \in 1..Len(SkippedRows) : SkippedRows[m] # row
               /\ \E m \in 1..Len(table_rows) :
                     /\ table_rows[m][1] = strip(row.product)
                     /\ IsBlank(row.price) => table_rows[m][2] = Zero
                     /\ IsBlank(row.qty) => table_rows[m][3] = Zero
                     /\ table_rows[m][4] = ZeroTotal

\* C3, as stated: every call of register_arial after the first returns what
\* the first call returned and neither looks for the font file nor registers
\* it, whether the first call succeeded or failed.
C3_LaterCallsCached ==
    \A k \in 2..Len(reg_log) :
        /\ reg_log[k].result = reg_log[1].result
        /\ ~reg_log[k].located
        /\ ~reg_log[k].registered

\* C3, amended: after a call of register_arial that returned true, every
\* later call returns true and neither looks for the font file nor registers
\* it; after calls that all returned false nothing is cached, and on win32
\* the next call looks for the font file again.
C3_SuccessCached ==
    \A k \in 2..Len(reg_log) :
        IF \E j \in 1..(k - 1) : reg_log[j].result
        THEN reg_log[k].result /\ ~reg_log[k].located /\ ~reg_log[k].registered
        ELSE platform = "win32" => reg_log[k].located

C3_Witness == Len(reg_log) = 2 /\ reg_log[1].result /\ reg_log[1].registered

\* C4: once build_invoice_pdf has returned true the run ends with exit code
\* 0, whether or not the launch of the PDF viewer succeeds.
C4_ExitZeroAfterRender == (Done /\ render = "true") => exit_code = 0

\* C5: when no row survives normalization, the run ends with exit code 1
\* after a no-data line on the error stream, build_invoice_pdf is never
\* called and no PDF is written.
C5_NoDataExit ==
    (Normalized /\ table_rows = <<>>)
    => /\ pc \in {"loop", "done"}
       /\ render = "none"
       /\ ~doc_constructed
       /\ ~path_touched
       /\ ~pdf_written
       /\ Len(reg_log) = 1
       /\ Done => (exit_code = 1 /\ LastLine(stderr) = <<"nodata">>)

C5_Witness ==
    /\ Done
    /\ Normalized
    /\ Len(rows_raw) = MaxRows
    /\ table_rows = <<>>
    /\ exit_code = 1

\* C6: when the header row is absent or has no product column, the run ends
\* with exit code 1 before any data row is read or normalized: no progress
\* notice, no row diagnostic and no call of build_invoice_pdf.
C6_SchemaExit ==
    (csv_isfile /\ ~HasProductColumn)
    => /\ pc \in {"start", "register", "open", "done"}
       /\ rows_raw = <<>>
       /\ i = 0
       /\ table_rows = <<>>
       /\ stdout = <<>>
       /\ SkippedRows = <<>>
       /\ render = "none"
       /\ ~pdf_written
       /\ Done => (exit_code = 1 /\ LastLine(stderr) = <<"schema">>)

C6_Witness ==
    /\ Done
    /\ csv_isfile
    /\ fieldnames = NoProductHeader
    /\ Len(csv_rows) = MaxRows
    /\ exit_code = 1

\* C7: the rows with a non-empty product and an unparsable price or qty are
\* left out of table_rows, each causes exactly one diagnostic line quoting
\* the raw row, the loop is left only when every row is consumed, and the
\* tuples of table_rows are those the other rows yield when the bad rows are
\* not in the input.
C7_BadRowsSkipped ==
    (pc \notin {"start", "register", "open", "read"})
    => /\ SkippedRows = SelectSeq(Consumed, IsBadRow)
       /\ table_rows = Items(SelectSeq(Consumed, IsGoodRow))
       /\ Len(table_rows) + Len(SkippedRows) <= Len(Consumed)
       /\ pc # "loop" => i = Len(rows_raw)

C7_Witness ==
    /\ Normalized
    /\ Len(rows_raw) = 2
    /\ IsBadRow(rows_raw[1])
    /\ IsValidRow(rows_raw[2])
    /\ Len(table_rows) = 1
    /\ SkippedRows = <<rows_raw[1]>>

\* C8: a row whose product is empty after trimming is left out of table_rows
\* and causes neither a diagnostic line nor a progress notice, also when its
\* price or qty does not parse.
C8_BlankProductSilent ==
    /\ \A k \in 1..Len(SkippedRows) : ~BlankProduct(SkippedRows[k])
    /\ \A k \in 1..Len(table_rows) : table_rows[k][1] # <<>>
    /\ ProgressProducts = [k \in 1..Len(table_rows) |-> table_rows[k][1]]
    /\ Len(table_rows) + Len(SkippedRows)
         = Cardinality({k \in 1..i : ~BlankProduct(rows_raw[k])})

C8_Witness ==
    /\ Normalized
    /\ Len(rows_raw) = 2
    /\ BlankProduct(rows_raw[1])
    /\ ~Parses(rows_raw[1].price)
    /\ ~Parses(rows_raw[1].qty)
    /\ IsValidRow(rows_raw[2])
    /\ stderr = <<>>

\* C9: when register_arial returns false inside build_invoice_pdf, the call
\* returns false without constructing the document or touching the output
\* path, and the run ends with exit code 1, the same failure at startup
\* having caused only a warning line.
C9_NoRenderWithoutFont ==
    /\ (doc_constructed \/ path_touched \/ pdf_written) => font_registered
    /\ (Len(reg_log) = 2 /\ ~reg_log[2].result)
       => /\ pc \in {"result", "done"}
          /\ render = "false"
          /\ data = <<>>
          /\ ~doc_constructed
          /\ ~path_touched
          /\ ~pdf_written
          /\ stderr[1] = <<"font">>
          /\ Done => (exit_code = 1 /\ LastLine(stderr) = <<"pdf_error">>)

C9_Witness ==
    /\ Done
    /\ Len(reg_log) = 2
    /\ ~reg_log[1].result
    /\ ~reg_log[2].result
    /\ table_rows # <<>>
    /\ exit_code = 1

\* C10: table_rows holds one tuple per valid consumed row (non-empty product,
\* parsable price and qty), in file order, and the table handed to Table is
\* the header row followed by one row of cells per tuple, in the same order.
C10_ValidRowsInOrder ==
    LET valid == SelectSeq(Consumed, IsValidRow)
    IN  /\ Len(table_rows) = Len(valid)
        /\ \A k \in 1..Len(valid) :
              /\ table_rows[k][1] = strip(valid[k].product)
              /\ table_rows[k][2] = NumberText(valid[k].price)
              /\ table_rows[k][3] = NumberText(valid[k].qty)
        /\ doc_constructed
           => /\ Len(data) = 1 + Len(SelectSeq(csv_rows, IsValidRow))
              /\ data[1] = HeaderRow
              /\ \A k \in 1..Len(table_rows) :
                    data[k + 1] = <<table_rows[k][1],
                                    table_rows[k][2] \o RoubleSuffix,
                                    table_rows[k][3] \o UnitSuffix,
                                    table_rows[k][4] \o RoubleSuffix>>

C10_Witness ==
    /\ doc_constructed
    /\ Len(rows_raw) = 2
    /\ Len(table_rows) = 2
    /\ table_rows[1] # table_rows[2]
    /\ Len(data) = 3

====
